---- MODULE Spec2Model ----
(***************************************************************************)
(* Model of the AI-output contract layer of the shoe scanner backend:      *)
(* backend/src/services/openai.ts (runVision, runRanking and their         *)
(* helpers).  The file holds two generations of the service; the model     *)
(* follows the current one (lines 1-389: patch step, strict schema,        *)
(* bbox normalization).                                                    *)
(*                                                                         *)
(* Numbers are fixed-point, in hundredths: One stands for 1, so 0.78 is    *)
(* 78 and the match score 90 is 9000.  JSON values are tagged records:     *)
(*   [t |-> "null"], [t |-> "str", s |-> ..], [t |-> "num", n |-> ..],     *)
(*   [t |-> "bool", b |-> ..], [t |-> "arr", a |-> <<..>>],                *)
(*   [t |-> "obj", o |-> [key |-> value, ...]].                            *)
(***************************************************************************)
EXTENDS Integers, Sequences, FiniteSets, TLC

VARIABLES
  MOCK_VISION,            \* openai.ts:18
  MOCK_RANKING,           \* openai.ts:19
  VISION_MAX_CANDIDATES,  \* openai.ts:20-24
  openai,                 \* openai.ts:29, TRUE when a client exists (credential set)
  pc,                     \* "ready": a call is pending; "done": it has settled
  req,                    \* the pending call and its arguments
  out,                    \* how the call settled: a returned value or a thrown error
  calls,                  \* upstream calls made so far: [detect |-> n, rank |-> n]
  generated,              \* the values randomUUID() has returned, in order
  effects                 \* the calls a route handler has made to its collaborators

vars == <<MOCK_VISION, MOCK_RANKING, VISION_MAX_CANDIDATES, openai, pc, req, out, calls,
          generated, effects>>

(***************************************************************************)
(* Bounds of the model.                                                    *)
(***************************************************************************)
MaxCands == 2
MaxRankCands == 4

(***************************************************************************)
(* Fixed-point scale and program constants.                                *)
(***************************************************************************)
One == 100
MinSide == 1
DefaultMaxCandidates == 8
MinMaxCandidates == 1
MaxMaxCandidates == 20

(***************************************************************************)
(* JSON values.                                                            *)
(***************************************************************************)
JNull == [t |-> "null"]
JStr(s) == [t |-> "str", s |-> s]
JNum(n) == [t |-> "num", n |-> n]
JBool(b) == [t |-> "bool", b |-> b]
JArr(a) == [t |-> "arr", a |-> a]
JObj(o) == [t |-> "obj", o |-> o]
EmptyRec == [k \in {} |-> JNull]

Has(v, k) == v.t = "obj" /\ k \in DOMAIN v.o
Restrict(f, S) == [k \in (DOMAIN f) \cap S |-> f[k]]
Without(f, k) == [j \in (DOMAIN f) \ {k} |-> f[j]]
Max(a, b) == IF a >= b THEN a ELSE b
Min(a, b) == IF a <= b THEN a ELSE b
SeqsUpTo(S, n) == UNION {[1..k -> S] : k \in 0..n}

(***************************************************************************)
(* Outcomes of a call: a returned value or a thrown error.  An error       *)
(* carries what the catch block of runVision reads: status,                *)
(* response.status and message.                                            *)
(***************************************************************************)
Return(v) == [kind |-> "return", value |-> v]
Throw(e) == [kind |-> "throw", error |-> e]
Pending == [kind |-> "none"]
ErrorOf(message) == [status |-> JNull, responseStatus |-> JNull, message |-> message]

(***************************************************************************)
(* Configuration read from the environment at load time.                   *)
(***************************************************************************)
LowerCase(s) ==
  CASE s = "TRUE" -> "true"
    [] s = "True" -> "true"
    [] s = "FALSE" -> "false"
    [] OTHER -> s

parseBooleanEnv(value, fallback) ==
  IF value = "" THEN fallback ELSE LowerCase(value) = "true"

\* env is [k |-> "unset"], [k |-> "nan"] (text that Number() cannot read) or
\* [k |-> "num", n |-> hundredths].
VisionMaxCandidates(env) ==
  IF env.k = "unset" THEN DefaultMaxCandidates
  ELSE IF env.k = "nan" THEN DefaultMaxCandidates
  ELSE Max(MinMaxCandidates, Min(MaxMaxCandidates, env.n \div One))

BoolEnvs == {"", "true", "TRUE", "false", "1"}
MaxCandEnvs == {[k |-> "unset"], [k |-> "nan"], [k |-> "num", n |-> 50],
                [k |-> "num", n |-> 2500]}
ApiKeys == {"", "sk-test"}

(***************************************************************************)
(* Geometry normalizer.                                                    *)
(***************************************************************************)
clamp01(value) == Max(0, Min(One, value))

\* normalizeBbox that passes the box through.
normalizeBbox_NoClamp(bbox) == bbox

normalizeBbox(bbox) ==
  IF bbox.t = "null" THEN JNull
  ELSE LET x == clamp01(bbox.o.x.n)
           y == clamp01(bbox.o.y.n)
           w == Max(MinSide, Min(clamp01(bbox.o.w.n), One - x))
           h == Max(MinSide, Min(clamp01(bbox.o.h.n), One - y))
       IN JObj([x |-> JNum(x), y |-> JNum(y), w |-> JNum(w), h |-> JNum(h)])

ErrorEntry(code, message) == JObj([code |-> JStr(code), message |-> JStr(message)])

NormalizeCandidate(candidate) ==
  JObj(("bbox" :> normalizeBbox(candidate.o.bbox)) @@ candidate.o)

\* normalizeVisionResult without the advisory error.
normalizeVisionResult_Silent(result) ==
  LET candidates == [i \in 1..Len(result.o.candidates.a) |->
                       NormalizeCandidate(result.o.candidates.a[i])]
  IN JObj(("candidates" :> JArr(candidates)) @@ result.o)

\* normalizeVisionResult that starts its errors list empty instead of copying
\* the errors of the result.
normalizeVisionResult_FreshErrors(result) ==
  LET candidates == [i \in 1..Len(result.o.candidates.a) |->
                       NormalizeCandidate(result.o.candidates.a[i])]
      missingBboxCount ==
        Cardinality({i \in 1..Len(candidates) : candidates[i].o.bbox.t = "null"})
      errors ==
        IF missingBboxCount > 0
        THEN <<ErrorEntry("VISION_PARTIAL_BBOX",
                          ToString(missingBboxCount)
                            \o " candidate(s) missing bbox due to ambiguity or occlusion.")>>
        ELSE <<>>
  IN JObj(("candidates" :> JArr(candidates)) @@ ("errors" :> JArr(errors)) @@ result.o)

normalizeVisionResult(result) ==
  LET candidates == [i \in 1..Len(result.o.candidates.a) |->
                       NormalizeCandidate(result.o.candidates.a[i])]
      missingBboxCount ==
        Cardinality({i \in 1..Len(candidates) : candidates[i].o.bbox.t = "null"})
      errors ==
        IF missingBboxCount > 0
        THEN Append(result.o.errors.a,
                    ErrorEntry("VISION_PARTIAL_BBOX",
                               ToString(missingBboxCount)
                                 \o " candidate(s) missing bbox due to ambiguity or occlusion."))
        ELSE result.o.errors.a
  IN JObj(("candidates" :> JArr(candidates)) @@ ("errors" :> JArr(errors)) @@ result.o)

(***************************************************************************)
(* Patch step: give every candidate object a bbox key.                     *)
(***************************************************************************)
PatchCandidate(candidate) ==
  IF candidate.t # "obj" THEN candidate
  ELSE JObj(("bbox" :> (IF "bbox" \in DOMAIN candidate.o THEN candidate.o.bbox ELSE JNull))
            @@ candidate.o)

\* patchVisionPayload that patches nothing.
patchVisionPayload_NoPatch(raw) == raw

patchVisionPayload(raw) ==
  IF raw.t # "obj" THEN raw
  ELSE IF Has(raw, "candidates") /\ raw.o.candidates.t = "arr"
       THEN JObj(("candidates" :>
                    JArr([i \in 1..Len(raw.o.candidates.a) |->
                            PatchCandidate(raw.o.candidates.a[i])])) @@ raw.o)
       ELSE raw

(***************************************************************************)
(* Schemas (zod).  safeParse is total: success with the parsed data, in    *)
(* which unknown keys are dropped, or failure with a message.              *)
(***************************************************************************)
IsString(v) == v.t = "str"
IsNullableString(v) == v.t = "str" \/ v.t = "null"
IsNumberIn(v, lo, hi) == v.t = "num" /\ lo <= v.n /\ v.n <= hi
IsEnum(v, S) == v.t = "str" /\ v.s \in S
IsArray(v) == v.t = "arr"

BboxKeys == {"x", "y", "w", "h"}
CandidateKeys == {"raw_label", "brand", "model", "confidence", "bbox", "notes"}
ImageQualityKeys == {"lighting", "blur", "occlusion"}
ErrorKeys == {"code", "message"}
VisionKeys == {"request_id", "candidates", "image_quality", "errors"}

BboxSchemaOk(v) ==
  \/ v.t = "null"
  \/ /\ v.t = "obj"
     /\ \A k \in BboxKeys : Has(v, k) /\ IsNumberIn(v.o[k], 0, One)

\* The candidate schema without the range of confidence.
CandidateSchemaOk_AnyConfidence(c) ==
  /\ c.t = "obj"
  /\ Has(c, "raw_label") /\ IsString(c.o.raw_label)
  /\ Has(c, "brand") /\ IsNullableString(c.o.brand)
  /\ Has(c, "model") /\ IsNullableString(c.o.model)
  /\ Has(c, "confidence") /\ c.o.confidence.t = "num"
  /\ Has(c, "bbox") /\ BboxSchemaOk(c.o.bbox)
  /\ (Has(c, "notes") => IsNullableString(c.o.notes))

CandidateSchemaOk(c) ==
  /\ c.t = "obj"
  /\ Has(c, "raw_label") /\ IsString(c.o.raw_label)
  /\ Has(c, "brand") /\ IsNullableString(c.o.brand)
  /\ Has(c, "model") /\ IsNullableString(c.o.model)
  /\ Has(c, "confidence") /\ IsNumberIn(c.o.confidence, 0, One)
  /\ Has(c, "bbox") /\ BboxSchemaOk(c.o.bbox)
  /\ (Has(c, "notes") => IsNullableString(c.o.notes))

ImageQualitySchemaOk(q) ==
  /\ q.t = "obj"
  /\ Has(q, "lighting") /\ IsEnum(q.o.lighting, {"good", "ok", "bad"})
  /\ Has(q, "blur") /\ IsEnum(q.o.blur, {"none", "mild", "high"})
  /\ Has(q, "occlusion") /\ IsEnum(q.o.occlusion, {"none", "some", "heavy"})

ErrorSchemaOk(e) ==
  /\ e.t = "obj"
  /\ Has(e, "code") /\ IsString(e.o.code)
  /\ Has(e, "message") /\ IsString(e.o.message)

VisionSchemaOk(json) ==
  /\ json.t = "obj"
  /\ Has(json, "request_id") /\ IsString(json.o.request_id)
  /\ Has(json, "candidates") /\ IsArray(json.o.candidates)
  /\ (\A i \in 1..Len(json.o.candidates.a) : CandidateSchemaOk(json.o.candidates.a[i]))
  /\ Len(json.o.candidates.a) <= VISION_MAX_CANDIDATES
  /\ Has(json, "image_quality") /\ ImageQualitySchemaOk(json.o.image_quality)
  /\ Has(json, "errors") /\ IsArray(json.o.errors)
  /\ (\A i \in 1..Len(json.o.errors.a) : ErrorSchemaOk(json.o.errors.a[i]))

StripBbox(b) == IF b.t = "null" THEN b ELSE JObj(Restrict(b.o, BboxKeys))
StripCandidate(c) ==
  JObj(("bbox" :> StripBbox(c.o.bbox)) @@ Restrict(c.o, CandidateKeys))
StripError(e) == JObj(Restrict(e.o, ErrorKeys))

VisionSchemaData(json) ==
  JObj([request_id |-> json.o.request_id,
        candidates |-> JArr([i \in 1..Len(json.o.candidates.a) |->
                               StripCandidate(json.o.candidates.a[i])]),
        image_quality |-> JObj(Restrict(json.o.image_quality.o, ImageQualityKeys)),
        errors |-> JArr([i \in 1..Len(json.o.errors.a) |-> StripError(json.o.errors.a[i])])])

VisionSchemaSafeParse(json) ==
  IF VisionSchemaOk(json)
  THEN [success |-> TRUE, data |-> VisionSchemaData(json)]
  ELSE [success |-> FALSE, message |-> "ZodError: detection schema"]

(***************************************************************************)
(* Model response parser.  A response text is a sequence of tokens:        *)
(* "{" and "}" are braces, "b" is the member list of the one object the    *)
(* model wrote (its content is the payload that comes with the text),      *)
(* "v" is a JSON scalar and "p" is a run of prose without braces.          *)
(***************************************************************************)
TextTokens == {"{", "}", "b", "v", "p"}

\* JSON.parse: the whole text must be one JSON value.
JsonParse(text, payload) ==
  IF text = <<"{", "b", "}">> THEN Return(payload)
  ELSE IF text = <<"{", "}">> THEN Return(JObj(EmptyRec))
  ELSE IF text = <<"v">> THEN Return(JNum(One))
  ELSE Throw(ErrorOf("Unexpected token in JSON"))

\* String.indexOf / lastIndexOf, 0-based, -1 when absent.
IndexOf(text, ch) ==
  IF \E i \in 1..Len(text) : text[i] = ch
  THEN (CHOOSE i \in 1..Len(text) :
          text[i] = ch /\ \A j \in 1..(i - 1) : text[j] # ch) - 1
  ELSE -1

LastIndexOf(text, ch) ==
  IF \E i \in 1..Len(text) : text[i] = ch
  THEN (CHOOSE i \in 1..Len(text) :
          text[i] = ch /\ \A j \in (i + 1)..Len(text) : text[j] # ch) - 1
  ELSE -1

\* String.slice(from, to) with 0-based from, exclusive to.
Slice(text, from, to) == SubSeq(text, from + 1, to)

\* safeParseJsonFromModel without the recovery of the catch block.
safeParseJsonFromModel_DirectOnly(text, payload) == JsonParse(text, payload)

safeParseJsonFromModel(text, payload) ==
  LET direct == JsonParse(text, payload)
      first == IndexOf(text, "{")
      last == LastIndexOf(text, "}")
  IN IF direct.kind = "return" THEN direct
     ELSE IF first >= 0 /\ last > first
          THEN JsonParse(Slice(text, first, last + 1), payload)
          ELSE Throw(ErrorOf("Model output is not valid JSON"))

(***************************************************************************)
(* Vision stage.                                                           *)
(***************************************************************************)
Bbox(x, y, w, h) == JObj([x |-> JNum(x), y |-> JNum(y), w |-> JNum(w), h |-> JNum(h)])

FallbackImageQuality ==
  JObj([lighting |-> JStr("ok"), blur |-> JStr("mild"), occlusion |-> JStr("some")])

MockVisionCandidates ==
  << JObj([raw_label |-> JStr("Nike Pegasus 40"), brand |-> JStr("Nike"),
           model |-> JStr("Pegasus 40"), confidence |-> JNum(78),
           bbox |-> Bbox(8, 22, 22, 18)]),
     JObj([raw_label |-> JStr("Brooks Ghost 15"), brand |-> JStr("Brooks"),
           model |-> JStr("Ghost 15"), confidence |-> JNum(74),
           bbox |-> Bbox(36, 28, 20, 16)]),
     JObj([raw_label |-> JStr("Hoka Clifton 9"), brand |-> JStr("Hoka"),
           model |-> JStr("Clifton 9"), confidence |-> JNum(69),
           bbox |-> Bbox(62, 31, 24, 19)]) >>

MockVisionResult(request_id) ==
  JObj([request_id |-> JStr(request_id),
        candidates |-> JArr(MockVisionCandidates),
        image_quality |-> FallbackImageQuality,
        errors |-> JArr(<<>>)])

VisionFailure(request_id, code, message) ==
  JObj([request_id |-> JStr(request_id),
        candidates |-> JArr(<<>>),
        image_quality |-> FallbackImageQuality,
        errors |-> JArr(<<ErrorEntry(code, message)>>)])

\* The upstream answers the prompt, which quotes request_id: a payload whose
\* request_id is EchoId stands for a model that copied the id as asked.
EchoId == "<request_id of the prompt>"

UpstreamPayload(payload, request_id) ==
  IF Has(payload, "request_id") /\ payload.o.request_id = JStr(EchoId)
  THEN JObj(("request_id" :> JStr(request_id)) @@ payload.o)
  ELSE payload

\* openai.responses.create: throws, or resolves to a response with output_text.
ResponsesCreate(upstream, request_id) ==
  IF upstream.kind = "throw" THEN Throw(upstream.error)
  ELSE Return([output_text |-> upstream.text,
               payload |-> UpstreamPayload(upstream.payload, request_id)])

\* The body of the try block.
VisionTry(upstream, request_id) ==
  LET resp == ResponsesCreate(upstream, request_id)
  IN IF resp.kind = "throw" THEN resp
     ELSE LET parsed == safeParseJsonFromModel(resp.value.output_text, resp.value.payload)
          IN IF parsed.kind = "throw" THEN parsed
             ELSE LET json == patchVisionPayload(parsed.value)
                      validated == VisionSchemaSafeParse(json)
                  IN IF ~validated.success
                     THEN Return(VisionFailure(request_id, "VISION_SCHEMA_INVALID",
                                               validated.message))
                     ELSE Return(normalizeVisionResult(validated.data))

\* The catch block.
StatusText(e) ==
  IF e.status.t # "null" THEN ToString(e.status.n \div One)
  ELSE IF e.responseStatus.t # "null" THEN ToString(e.responseStatus.n \div One)
  ELSE "unknown"

VisionCatch(e, request_id) ==
  Return(VisionFailure(request_id, "VISION_UPSTREAM_ERROR",
                       "OpenAI failed (" \o StatusText(e) \o "): "
                         \o (IF e.message # "" THEN e.message ELSE "Error")))

\* The mock short-circuit testing the flag alone.
VisionIsMock_FlagOnly == MOCK_VISION

VisionIsMock == MOCK_VISION \/ ~openai

\* runVision without its catch block.
runVision_NoCatch(args, request_id) ==
  IF VisionIsMock THEN Return(MockVisionResult(request_id))
  ELSE VisionTry(args.upstream, request_id)

runVision(args, request_id) ==
  IF VisionIsMock THEN Return(MockVisionResult(request_id))
  ELSE LET body == VisionTry(args.upstream, request_id)
       IN IF body.kind = "throw" THEN VisionCatch(body.error, request_id) ELSE body

(***************************************************************************)
(* Ranking stage.                                                          *)
(***************************************************************************)
IsInt(v) == v.t = "num" /\ v.n % One = 0
IsNullableNumber(v) == v.t = "num" \/ v.t = "null"

ProfileSchemaOk(p) ==
  /\ p.t = "obj"
  /\ Has(p, "arch_type") /\ IsEnum(p.o.arch_type, {"flat", "normal", "high", "unknown"})
  /\ Has(p, "usage")
  /\ IsEnum(p.o.usage, {"road", "trail", "treadmill", "casual", "racing"})
  /\ Has(p, "weekly_mileage") /\ IsInt(p.o.weekly_mileage) /\ p.o.weekly_mileage.n >= 0

SpecsSchemaOk(v) ==
  /\ v.t = "obj"
  /\ Has(v, "terrain") /\ IsNullableString(v.o.terrain)
  /\ Has(v, "stability") /\ IsNullableString(v.o.stability)
  /\ Has(v, "drop_mm") /\ IsNullableNumber(v.o.drop_mm)
  /\ Has(v, "weight_g") /\ IsNullableNumber(v.o.weight_g)
  /\ Has(v, "cushion") /\ IsNullableString(v.o.cushion)

RankedSchemaOk(r) ==
  /\ r.t = "obj"
  /\ Has(r, "model") /\ IsString(r.o.model)
  /\ Has(r, "match_score") /\ IsNumberIn(r.o.match_score, 0, 100 * One)
  /\ Has(r, "why") /\ IsArray(r.o.why)
  /\ (\A i \in 1..Len(r.o.why.a) : IsString(r.o.why.a[i]))
  /\ Len(r.o.why.a) >= 1 /\ Len(r.o.why.a) <= 6
  /\ Has(r, "specs") /\ SpecsSchemaOk(r.o.specs)
  /\ Has(r, "tradeoffs") /\ IsArray(r.o.tradeoffs)
  /\ (\A i \in 1..Len(r.o.tradeoffs.a) : IsString(r.o.tradeoffs.a[i]))
  /\ Len(r.o.tradeoffs.a) <= 6
  /\ Has(r, "confidence") /\ IsNumberIn(r.o.confidence, 0, One)

AvoidSchemaOk(a) ==
  /\ a.t = "obj"
  /\ Has(a, "model") /\ IsString(a.o.model)
  /\ Has(a, "reason") /\ IsString(a.o.reason)
  /\ Has(a, "confidence") /\ IsNumberIn(a.o.confidence, 0, One)

RankingSchemaOk(json) ==
  /\ json.t = "obj"
  /\ Has(json, "request_id") /\ IsString(json.o.request_id)
  /\ Has(json, "profile_used") /\ ProfileSchemaOk(json.o.profile_used)
  /\ Has(json, "ranked") /\ IsArray(json.o.ranked)
  /\ (\A i \in 1..Len(json.o.ranked.a) : RankedSchemaOk(json.o.ranked.a[i]))
  /\ Len(json.o.ranked.a) <= 5
  /\ Has(json, "avoid") /\ IsArray(json.o.avoid)
  /\ (\A i \in 1..Len(json.o.avoid.a) : AvoidSchemaOk(json.o.avoid.a[i]))
  /\ Len(json.o.avoid.a) <= 5
  /\ Has(json, "fallback_needed") /\ json.o.fallback_needed.t = "bool"
  /\ Has(json, "errors") /\ IsArray(json.o.errors)
  /\ (\A i \in 1..Len(json.o.errors.a) : ErrorSchemaOk(json.o.errors.a[i]))

RankingSchemaSafeParse(json) ==
  IF RankingSchemaOk(json)
  THEN [success |-> TRUE, data |-> json]
  ELSE [success |-> FALSE, message |-> "ZodError: ranking schema"]

\* JavaScript truthiness of a string | null field.
Truthy(v) == v.t = "str" /\ v.s # ""

HasBrandAndModel(c) == Truthy(c.o.brand) /\ Truthy(c.o.model)

MockRanked(c, i, profile) ==
  JObj([model |-> JStr(c.o.brand.s \o " " \o c.o.model.s),
        match_score |-> JNum(90 * One - i * 8 * One),
        why |-> JArr(<<JStr("Matches " \o profile.o.usage.s \o " usage"),
                       JStr("Heuristic match for " \o profile.o.arch_type.s \o " arch")>>),
        specs |-> JObj([terrain |-> profile.o.usage,
                        stability |-> IF profile.o.arch_type = JStr("flat")
                                      THEN JStr("stable") ELSE JStr("neutral"),
                        drop_mm |-> JNum(8 * One),
                        weight_g |-> JNum(290 * One),
                        cushion |-> JStr("medium")]),
        tradeoffs |-> JArr(<<JStr("Mock tradeoff")>>),
        confidence |-> JNum(65)])

\* The mock list cut after five entries (the schema's limit) instead of three.
MockRankedList_TopFive(candidates, profile) ==
  LET kept == SelectSeq(candidates, HasBrandAndModel)
      top == SubSeq(kept, 1, Min(5, Len(kept)))
  IN [i \in 1..Len(top) |-> MockRanked(top[i], i - 1, profile)]

MockRankedList(candidates, profile) ==
  LET kept == SelectSeq(candidates, HasBrandAndModel)
      top == SubSeq(kept, 1, Min(3, Len(kept)))
  IN [i \in 1..Len(top) |-> MockRanked(top[i], i - 1, profile)]

RankingResult(requestId, profile, ranked, fallback, errors) ==
  JObj([request_id |-> JStr(requestId),
        profile_used |-> profile,
        ranked |-> JArr(ranked),
        avoid |-> JArr(<<>>),
        fallback_needed |-> JBool(fallback),
        errors |-> JArr(errors)])

RankingIsMock == MOCK_RANKING \/ ~openai

RankingMock(args) ==
  LET ranked == MockRankedList(args.candidates, args.profile)
      mock == RankingResult(args.requestId, args.profile, ranked, Len(ranked) = 0, <<>>)
      checked == RankingSchemaSafeParse(mock)
  IN IF ~checked.success
     THEN RankingResult(args.requestId, args.profile, <<>>, TRUE,
                        <<ErrorEntry("MOCK_RANK_SCHEMA_INVALID", checked.message)>>)
     ELSE mock

\* runRanking testing the mock mode before visionFailed.
runRanking_ModeFirst(args) ==
  IF RankingIsMock THEN Return(RankingMock(args))
  ELSE IF args.visionFailed
  THEN Return(RankingResult(args.requestId, args.profile, <<>>, TRUE,
         <<ErrorEntry("VISION_UNAVAILABLE",
                      "Automatic shoe detection unavailable. Use manual search.")>>))
  ELSE Return(RankingResult(args.requestId, args.profile, <<>>, TRUE,
         <<ErrorEntry("RANKING_NOT_ENABLED", "Real ranking not enabled yet.")>>))

\* runRanking answering a live request with the heuristic list.
runRanking_LiveRanks(args) ==
  IF args.visionFailed
  THEN Return(RankingResult(args.requestId, args.profile, <<>>, TRUE,
         <<ErrorEntry("VISION_UNAVAILABLE",
                      "Automatic shoe detection unavailable. Use manual search.")>>))
  ELSE Return(RankingMock(args))

runRanking(args) ==
  IF args.visionFailed
  THEN Return(RankingResult(args.requestId, args.profile, <<>>, TRUE,
         <<ErrorEntry("VISION_UNAVAILABLE",
                      "Automatic shoe detection unavailable. Use manual search.")>>))
  ELSE IF RankingIsMock THEN Return(RankingMock(args))
  ELSE Return(RankingResult(args.requestId, args.profile, <<>>, TRUE,
         <<ErrorEntry("RANKING_NOT_ENABLED", "Real ranking not enabled yet.")>>))

(***************************************************************************)
(* Inputs.  Upstream detection answers: a thrown error (with a status,     *)
(* with a status on its response, with none), or a text with a payload.    *)
(* Payloads are a well-formed detection object or one with a defect.       *)
(***************************************************************************)
GoodCandidate ==
  [raw_label |-> JStr("Nike Pegasus 40"), brand |-> JStr("Nike"),
   model |-> JStr("Pegasus 40"), confidence |-> JNum(80),
   bbox |-> Bbox(10, 20, 30, 40), notes |-> JNull]

\* unmapped label, no notes key, a key the schema does not know
CandUnmapped ==
  JObj(("color" :> JStr("blue")) @@
       [raw_label |-> JStr("grey trainer"), brand |-> JNull, model |-> JNull,
        confidence |-> JNum(One), bbox |-> Bbox(0, 0, One, One)])
\* coordinates in range, the box reaching outside the unit square
CandOverflow == JObj([GoodCandidate EXCEPT !.bbox = Bbox(90, 90, 50, 50)])
CandEdge == JObj([GoodCandidate EXCEPT !.bbox = Bbox(One, 0, 50, 0)])
\* a coordinate out of range
CandXOut == JObj([GoodCandidate EXCEPT !.bbox = Bbox(120, 20, 30, 40)])
CandWOut == JObj([GoodCandidate EXCEPT !.bbox = Bbox(10, 20, 150, 40)])
\* bbox null, bbox key absent
CandNullBbox == JObj([GoodCandidate EXCEPT !.bbox = JNull])
CandNoBbox == JObj(Without(GoodCandidate, "bbox"))
\* other defects
CandConfOut == JObj([GoodCandidate EXCEPT !.confidence = JNum(150)])
CandNoLabel == JObj(Without(GoodCandidate, "raw_label"))

PayloadCandidates ==
  { JObj(GoodCandidate), CandUnmapped, CandOverflow, CandEdge, CandXOut, CandWOut,
    CandNullBbox, CandNoBbox, CandConfOut, CandNoLabel }

BasePayload(id, candidates) ==
  [request_id |-> id,
   candidates |-> JArr(candidates),
   image_quality |-> JObj([lighting |-> JStr("good"), blur |-> JStr("none"),
                           occlusion |-> JStr("heavy")]),
   errors |-> JArr(<<>>)]

ForeignId == "id-made-up-by-the-model"

ListPayloads ==
  { JObj(BasePayload(JStr(id), cs)) :
      id \in {EchoId, ForeignId}, cs \in SeqsUpTo(PayloadCandidates, MaxCands) }

DefectPayloads ==
  LET base == BasePayload(JStr(EchoId), <<JObj(GoodCandidate)>>)
  IN { JObj(Without(base, "request_id")),
       JObj([base EXCEPT !.request_id = JNum(One)]),
       JObj([base EXCEPT !.image_quality.o.blur = JStr("severe")]),
       JObj([base EXCEPT !.candidates = JObj(EmptyRec)]),
       JObj([base EXCEPT !.candidates = JArr(<<JNum(One)>>)]),
       JObj(Without(base, "errors")),
       JObj([base EXCEPT !.errors =
               JArr(<<ErrorEntry("LOW_LIGHT", "image is dark")>>)]) }

Payloads == ListPayloads \cup DefectPayloads

\* Texts that are, or wrap, the object; and texts with no object to recover.
ObjectTexts == { <<"{", "b", "}">>, <<"p", "{", "b", "}", "p">> }
OtherTexts == { <<>>, <<"p">>, <<"v">>, <<"{", "}">>, <<"}", "p", "{">>,
                <<"{", "b", "}", "p", "{", "b", "}">> }

UpstreamErrors ==
  { [status |-> JNum(429 * One), responseStatus |-> JNull, message |-> "rate limited"],
    [status |-> JNull, responseStatus |-> JNum(401 * One), message |-> "unauthorized"],
    [status |-> JNull, responseStatus |-> JNull, message |-> "socket hang up"],
    [status |-> JNull, responseStatus |-> JNull, message |-> ""] }

Upstreams ==
  { [kind |-> "throw", error |-> e] : e \in UpstreamErrors }
  \cup { [kind |-> "text", text |-> t, payload |-> p] : t \in ObjectTexts, p \in Payloads }
  \cup { [kind |-> "text", text |-> t,
          payload |-> JObj(BasePayload(JStr(EchoId), <<JObj(GoodCandidate)>>))] :
           t \in OtherTexts }

UUIDs == {"uuid-1", "uuid-2"}

VisionRequests == { [op |-> "runVision", args |-> [upstream |-> u]] : u \in Upstreams }

\* Ranking inputs.
RankCandidates ==
  { JObj([raw_label |-> JStr("Nike Pegasus 40"), brand |-> JStr("Nike"),
          model |-> JStr("Pegasus 40"), confidence |-> JNum(78)]),
    JObj([raw_label |-> JStr("Brooks Ghost 15"), brand |-> JStr("Brooks"),
          model |-> JStr("Ghost 15"), confidence |-> JNum(74)]),
    JObj([raw_label |-> JStr("grey trainer"), brand |-> JNull,
          model |-> JNull, confidence |-> JNum(40)]) }

Profile(arch, usage, mileage) ==
  JObj([arch_type |-> JStr(arch), usage |-> JStr(usage), weekly_mileage |-> JNum(mileage)])

Profiles ==
  { Profile("normal", "road", 20 * One),
    Profile("flat", "trail", 0),
    Profile("normal", "road", 0 - One),
    Profile("high", "racing", 250) }

Catalogs ==
  { EmptyRec,
    ("Nike Pegasus 40" :>
       JObj([brand |-> JStr("Nike"), model |-> JStr("Pegasus 40"),
             terrain |-> JStr("road"), stability |-> JStr("neutral"),
             cushion |-> JStr("medium"), drop_mm |-> JNum(10 * One),
             weight_g |-> JNum(285 * One)])) }

RankingRequests ==
  { [op |-> "runRanking",
     args |-> [requestId |-> "uuid-1", profile |-> p, candidates |-> cs,
               specsByName |-> cat, visionFailed |-> vf]] :
      p \in Profiles,
      cs \in SeqsUpTo(RankCandidates, MaxRankCands) \cup {MockVisionCandidates},
      cat \in Catalogs, vf \in BOOLEAN }

(***************************************************************************)
(* The services as a state machine: the module is loaded with some         *)
(* environment, a caller makes one call, the call settles.                 *)
(***************************************************************************)
\* The module-level constants for every environment the process may start in.
Configs ==
  { LET MOCK_AI == parseBooleanEnv(envAI, TRUE)
    IN [MOCK_VISION |-> parseBooleanEnv(envVision, MOCK_AI),
        MOCK_RANKING |-> parseBooleanEnv(envRanking, MOCK_AI),
        VISION_MAX_CANDIDATES |-> VisionMaxCandidates(envMax),
        openai |-> (apiKey # "")] :
      envAI \in BoolEnvs, envVision \in BoolEnvs, envRanking \in BoolEnvs,
      envMax \in MaxCandEnvs, apiKey \in ApiKeys }

LoadConfig ==
  \E c \in Configs :
    /\ MOCK_VISION = c.MOCK_VISION
    /\ MOCK_RANKING = c.MOCK_RANKING
    /\ VISION_MAX_CANDIDATES = c.VISION_MAX_CANDIDATES
    /\ openai = c.openai

Init ==
  /\ LoadConfig
  /\ pc = "ready"
  /\ req \in VisionRequests \cup RankingRequests
  /\ out = Pending
  /\ calls = [detect |-> 0, rank |-> 0]
  /\ generated = <<>>
  /\ effects = <<>>

RunVision ==
  /\ pc = "ready"
  /\ req.op = "runVision"
  /\ \E request_id \in UUIDs :
       /\ generated' = Append(generated, request_id)
       /\ out' = runVision(req.args, request_id)
  /\ calls' = [calls EXCEPT !.detect = IF VisionIsMock THEN @ ELSE @ + 1]
  /\ pc' = "done"
  /\ UNCHANGED <<MOCK_VISION, MOCK_RANKING, VISION_MAX_CANDIDATES, openai, req, effects>>

RunRanking ==
  /\ pc = "ready"
  /\ req.op = "runRanking"
  /\ out' = runRanking(req.args)
  /\ pc' = "done"
  /\ UNCHANGED <<MOCK_VISION, MOCK_RANKING, VISION_MAX_CANDIDATES, openai, req, calls,
                 generated, effects>>

Next == RunVision \/ RunRanking

Spec == Init /\ [][Next]_vars

(***************************************************************************)
(* The geometry normalizer on its own: normalizeBbox applied to boxes      *)
(* whose fields range over a grid that also leaves [0,1].                  *)
(***************************************************************************)
GridSteps == 4

Coords == {(i * One) \div GridSteps : i \in 0..GridSteps} \cup {MinSide, One - MinSide}
Sizes == Coords \cup {0 - (One \div 2), One + (One \div 2)}

GeometryRequests ==
  { [op |-> "normalizeBbox", bbox |-> Bbox(x, y, w, h)] :
      x \in Sizes, y \in Sizes, w \in Sizes, h \in Sizes }
  \cup { [op |-> "normalizeBbox", bbox |-> JNull] }

DefaultConfig ==
  [MOCK_VISION |-> parseBooleanEnv("", parseBooleanEnv("", TRUE)),
   MOCK_RANKING |-> parseBooleanEnv("", parseBooleanEnv("", TRUE)),
   VISION_MAX_CANDIDATES |-> VisionMaxCandidates([k |-> "unset"]),
   openai |-> FALSE]

InitGeometry ==
  /\ MOCK_VISION = DefaultConfig.MOCK_VISION
  /\ MOCK_RANKING = DefaultConfig.MOCK_RANKING
  /\ VISION_MAX_CANDIDATES = DefaultConfig.VISION_MAX_CANDIDATES
  /\ openai = DefaultConfig.openai
  /\ pc = "ready"
  /\ req \in GeometryRequests
  /\ out = Pending
  /\ calls = [detect |-> 0, rank |-> 0]
  /\ generated = <<>>
  /\ effects = <<>>

ApplyNormalizeBbox ==
  /\ pc = "ready"
  /\ req.op = "normalizeBbox"
  /\ out' = Return(normalizeBbox(req.bbox))
  /\ pc' = "done"
  /\ UNCHANGED <<MOCK_VISION, MOCK_RANKING, VISION_MAX_CANDIDATES, openai, req, calls,
                 generated, effects>>

NextGeometry == ApplyNormalizeBbox

SpecGeometry == InitGeometry /\ [][NextGeometry]_vars

(***************************************************************************)
(* The response parser on its own: safeParseJsonFromModel applied to every *)
(* text of at most MaxTextLen tokens.                                      *)
(***************************************************************************)
MaxTextLen == 5

ParseRequests ==
  { [op |-> "safeParseJsonFromModel", text |-> t, payload |-> p] :
      t \in SeqsUpTo(TextTokens, MaxTextLen),
      p \in { JObj(BasePayload(JStr(EchoId), <<JObj(GoodCandidate)>>)),
               JObj([answer |-> JStr("no shoes here")]) } }

InitParse ==
  /\ MOCK_VISION = DefaultConfig.MOCK_VISION
  /\ MOCK_RANKING = DefaultConfig.MOCK_RANKING
  /\ VISION_MAX_CANDIDATES = DefaultConfig.VISION_MAX_CANDIDATES
  /\ openai = DefaultConfig.openai
  /\ pc = "ready"
  /\ req \in ParseRequests
  /\ out = Pending
  /\ calls = [detect |-> 0, rank |-> 0]
  /\ generated = <<>>
  /\ effects = <<>>

ApplySafeParse ==
  /\ pc = "ready"
  /\ req.op = "safeParseJsonFromModel"
  /\ out' = safeParseJsonFromModel(req.text, req.payload)
  /\ pc' = "done"
  /\ UNCHANGED <<MOCK_VISION, MOCK_RANKING, VISION_MAX_CANDIDATES, openai, req, calls,
                 generated, effects>>

SpecParse == InitParse /\ [][ApplySafeParse]_vars

(***************************************************************************)
(* POST /analyze.  The request comes with what each collaborator will      *)
(* answer: the multipart upload, the storage bucket, the users, scans,     *)
(* shoes and recommendations tables, the upstream detection call.          *)
(***************************************************************************)
MAX_IMAGE_SIZE_BYTES == 8388608

ApiError(status, code, message) ==
  [type |-> "ApiError", status |-> status, code |-> code, message |-> message]
MulterError(code, message) == [type |-> "MulterError", code |-> code, message |-> message]
PlainError(message) == [type |-> "Error", message |-> message]

toApiError(error) ==
  IF error.type = "ApiError" THEN error
  ELSE IF error.type = "MulterError"
  THEN IF error.code = "LIMIT_FILE_SIZE"
       THEN ApiError(413, "IMAGE_TOO_LARGE",
                     "Image exceeds limit of "
                       \o ToString(MAX_IMAGE_SIZE_BYTES \div (1024 * 1024)) \o "MB")
       ELSE ApiError(400, "UPLOAD_ERROR", error.message)
  ELSE ApiError(500, "INTERNAL_ERROR", "Internal error")

\* A call the handler made to a collaborator, with what it passed.
Effect(call, args) == [call |-> call, args |-> args]

\* req.query.user_id: a string, an array of strings, or absent.
UserIdRaw(query) == IF query.t = "arr" THEN query.a[1] ELSE query
\* z.string().uuid(): the one well-formed id of the model passes.
UserIdSchemaSafeParse(s) ==
  [success |-> s = "7b1c6a52-3f0e-4d7a-9c55-2f6a1e0b8d11", data |-> s]

\* uploadImage: ext is file.originalname.split('.').pop() || 'jpg', the name
\* given as its dot-separated parts; stamp is Date.now() and the random suffix.
UploadPath(file, stamp) ==
  LET last == file.originalname[Len(file.originalname)]
      ext == IF last # "" THEN last ELSE "jpg"
  IN "scans/" \o stamp \o "." \o ext

\* visionFailed counted on the errors of the vision result.
VisionFailed_OnErrors(vision) == Len(vision.o.errors.a) > 0

VisionFailed(vision) == Len(vision.o.candidates.a) = 0

\* specsByName[`${s.brand} ${s.model}`] = s, a later row replacing an earlier.
SpecsByName(shoes) ==
  LET rows == IF shoes = JNull THEN <<>> ELSE shoes.a
      KeyAt(i) == rows[i].o.brand.s \o " " \o rows[i].o.model.s
  IN [k \in {KeyAt(i) : i \in 1..Len(rows)} |->
        rows[CHOOSE i \in 1..Len(rows) :
               KeyAt(i) = k /\ \A j \in (i + 1)..Len(rows) : KeyAt(j) # k]]

Response(status, body) == [status |-> status, body |-> body]

\* How the try block ended: the response it sent or the error it threw, the
\* two locals the catch block reads, and the calls made.
TryEnded(kind, value, uploadedPath, scanId, made) ==
  [kind |-> kind, value |-> value, uploadedPath |-> uploadedPath, scanId |-> scanId,
   effects |-> made]

\* The try block once the ranking is back: the rows are saved and the
\* response is sent.
AnalyzeRanked(rq, path, vision, rankingArgs, recommendations, made) ==
  LET e7 == Append(made, Effect("runRanking", rankingArgs))
      e8 == Append(e7, Effect("recommendations.insert",
                              [scan_id |-> rq.scan.data.o.id,
                               ranked |-> recommendations.o.ranked,
                               avoid |-> recommendations.o.avoid,
                               fallback_needed |-> recommendations.o.fallback_needed]))
  IN IF rq.recSave.error # JNull
     THEN TryEnded("throw", ApiError(500, "RECOMMENDATIONS_SAVE_FAILED",
                                     "Failed to save recommendations: "
                                       \o rq.recSave.error.message),
                   JStr(path), rq.scan.data.o.id, e8)
     ELSE TryEnded("return",
                   Response(200, JObj([scan_id |-> rq.scan.data.o.id,
                                       image_url |-> JStr("https://storage.example/" \o path),
                                       vision |-> vision,
                                       recommendations |-> recommendations])),
                   JStr(path), rq.scan.data.o.id, e8)

\* The try block once detection has answered: the catalog is loaded and the
\* ranking is asked for.
AnalyzeDetected(rq, path, vision, made) ==
  LET visionFailed == VisionFailed(vision)
      e6 == Append(made, Effect("shoes.select", JNull))
      rankingArgs == [requestId |-> vision.o.request_id.s,
                      profile |-> rq.user.data,
                      candidates |-> vision.o.candidates.a,
                      specsByName |-> SpecsByName(rq.shoes.data),
                      visionFailed |-> visionFailed]
  IN IF rq.shoes.error # JNull
     THEN TryEnded("throw", ApiError(500, "SHOES_LOAD_FAILED",
                                     "Failed to load shoes: " \o rq.shoes.error.message),
                   JStr(path), rq.scan.data.o.id, e6)
     ELSE AnalyzeRanked(rq, path, vision, rankingArgs, runRanking(rankingArgs).value, e6)

\* The try block once the scan row exists: detection runs.
AnalyzeScanned(rq, path, visionRun, made) ==
  IF visionRun.kind = "throw"
  THEN TryEnded("throw", PlainError(visionRun.error.message),
                JStr(path), rq.scan.data.o.id, Append(made, Effect("runVision", JNull)))
  ELSE AnalyzeDetected(rq, path, visionRun.value,
                       Append(made, Effect("runVision", visionRun.value)))

AnalyzeTry(rq, request_id) ==
  LET userId == UserIdSchemaSafeParse(IF Truthy(UserIdRaw(rq.query.user_id))
                                      THEN UserIdRaw(rq.query.user_id).s ELSE "")
      e1 == <<Effect("runUpload", JNull)>>
      path == UploadPath(rq.upload.file, rq.stamp)
      imageUrl == "https://storage.example/" \o path
      e2 == Append(e1, Effect("storage.upload", path))
      e3 == Append(e2, Effect("users.select", userId.data))
      e4 == Append(e3, Effect("scans.insert",
                              [user_id |-> userId.data, image_url |-> imageUrl]))
  IN IF ~userId.success
     THEN TryEnded("throw", ApiError(400, "INVALID_USER_ID", "Invalid user_id query parameter"),
                   JNull, JNull, <<>>)
     ELSE IF rq.upload.kind = "reject"
     THEN TryEnded("throw", rq.upload.error, JNull, JNull, e1)
     ELSE IF rq.upload.kind = "nofile"
     THEN TryEnded("throw", ApiError(400, "MISSING_IMAGE", "Missing image file field \"image\""),
                   JNull, JNull, e1)
     ELSE IF rq.storage.error # JNull
     THEN TryEnded("throw", ApiError(502, "STORAGE_UPLOAD_FAILED",
                                     "Storage upload failed: " \o rq.storage.error.message),
                   JNull, JNull, e2)
     ELSE IF rq.user.error # JNull \/ rq.user.data = JNull
     THEN TryEnded("throw", ApiError(404, "USER_NOT_FOUND", "User not found"),
                   JStr(path), JNull, e3)
     ELSE IF rq.scan.error # JNull \/ rq.scan.data = JNull
     THEN TryEnded("throw", ApiError(500, "SCAN_CREATE_FAILED",
                                     "Failed to create scan: "
                                       \o (IF rq.scan.error # JNull
                                           THEN rq.scan.error.message ELSE "unknown")),
                   JStr(path), JNull, e4)
     ELSE AnalyzeScanned(rq, path, runVision([upstream |-> rq.upstream], request_id), e4)

\* cleanupScan / cleanupImage inside their try-catch: the call, and
\* console.error when it threw.
CleanupScan(rq, scanId) ==
  <<Effect("cleanupScan", scanId.s)>>
  \o (IF rq.scanDelete.error # JNull
      THEN <<Effect("console.error", "Scan cleanup failed: " \o rq.scanDelete.error.message)>>
      ELSE <<>>)

CleanupImage(rq, uploadedPath) ==
  <<Effect("cleanupImage", uploadedPath.s)>>
  \o (IF rq.storageRemove.error # JNull
      THEN <<Effect("console.error",
                    "Image cleanup failed: " \o rq.storageRemove.error.message)>>
      ELSE <<>>)

\* Skips the scan cleanup.
AnalyzeCatch_ImageOnly(rq, tried) ==
  LET apiError == toApiError(tried.value)
      response == Response(apiError.status,
                           JObj([error |-> JObj([code |-> JStr(apiError.code),
                                                 message |-> JStr(apiError.message)])]))
  IN [response |-> response,
      effects |-> tried.effects
                    \o (IF Truthy(tried.uploadedPath)
                        THEN CleanupImage(rq, tried.uploadedPath) ELSE <<>>)
                    \o <<Effect("res.json", response)>>]

AnalyzeCatch(rq, tried) ==
  LET apiError == toApiError(tried.value)
      response == Response(apiError.status,
                           JObj([error |-> JObj([code |-> JStr(apiError.code),
                                                 message |-> JStr(apiError.message)])]))
  IN [response |-> response,
      effects |-> tried.effects
                    \o (IF Truthy(tried.scanId) THEN CleanupScan(rq, tried.scanId) ELSE <<>>)
                    \o (IF Truthy(tried.uploadedPath)
                        THEN CleanupImage(rq, tried.uploadedPath) ELSE <<>>)
                    \o <<Effect("res.json", response)>>]

\* The handler's end: a response sent by the try block stands, an error it
\* threw goes through the catch block.
AnalyzeEnd(rq, tried) ==
  IF tried.kind = "throw" THEN AnalyzeCatch(rq, tried)
  ELSE [response |-> tried.value,
        effects |-> Append(tried.effects, Effect("res.json", tried.value))]

analyzePost(rq, request_id) == AnalyzeEnd(rq, AnalyzeTry(rq, request_id))

\* Collaborator answers.
Answer(data, error) == [data |-> data, error |-> error]

Queries ==
  { [user_id |-> JNull], [user_id |-> JStr("42")],
    [user_id |-> JStr("7b1c6a52-3f0e-4d7a-9c55-2f6a1e0b8d11")],
    [user_id |-> JArr(<<JStr("7b1c6a52-3f0e-4d7a-9c55-2f6a1e0b8d11"), JStr("42")>>)] }

Files ==
  { [originalname |-> <<"wall", "png">>, mimetype |-> "image/png"],
    [originalname |-> <<"wall">>, mimetype |-> "image/jpeg"],
    [originalname |-> <<"">>, mimetype |-> "image/webp"] }
Uploads ==
  { [kind |-> "file", file |-> f] : f \in Files }
  \cup { [kind |-> "nofile"] }
  \cup { [kind |-> "reject", error |-> e] :
           e \in { ApiError(400, "UNSUPPORTED_IMAGE_TYPE",
                            "Unsupported image type \"image/gif\"."),
                   MulterError("LIMIT_FILE_SIZE", "File too large"),
                   MulterError("LIMIT_UNEXPECTED_FILE", "Unexpected field"),
                   PlainError("Unexpected end of form") } }

Outcomes == { Answer(JNull, JNull), Answer(JNull, [message |-> "connection refused"]) }
UserRows == { Profile("normal", "road", 20 * One), Profile("flat", "trail", 0) }
Users == { Answer(u, JNull) : u \in UserRows } \cup Outcomes
Scans == { Answer(JObj([id |-> JStr("scan-1")]), JNull) } \cup Outcomes

ShoeRow(brand, model, terrain, stability, cushion, drop_mm, weight_g) ==
  JObj([brand |-> JStr(brand), model |-> JStr(model), terrain |-> JStr(terrain),
        stability |-> JStr(stability), cushion |-> JStr(cushion),
        drop_mm |-> JNum(drop_mm * One), weight_g |-> JNum(weight_g * One)])
SeedShoes ==
  << ShoeRow("Nike", "Pegasus 40", "road", "neutral", "medium", 10, 285),
     ShoeRow("Brooks", "Ghost 15", "road", "neutral", "medium", 12, 286),
     ShoeRow("Hoka", "Clifton 9", "road", "neutral", "high", 5, 248),
     ShoeRow("Brooks", "Cascadia 17", "trail", "stable", "medium", 8, 300) >>
Shoes == { Answer(JArr(SeedShoes), JNull), Answer(JArr(<<>>), JNull) } \cup Outcomes

\* Detection answers: the call failing, an answer without an object, a broken
\* object, lists of no, one and two candidates with and without a bbox.
AnalyzeUpstreams ==
  { u \in Upstreams :
      \/ u.kind = "throw" /\ u.error.message = "rate limited"
      \/ u.kind = "text" /\ u.text = <<"p">>
      \/ /\ u.kind = "text" /\ u.text = <<"p", "{", "b", "}", "p">>
         /\ u.payload \in ListPayloads
         /\ u.payload.o.request_id = JStr(EchoId)
         /\ u.payload.o.candidates.a \in
              { <<>>, <<JObj(GoodCandidate)>>, <<CandNullBbox>>, <<CandUnmapped>>,
                <<CandConfOut>>, <<CandNoBbox, JObj(GoodCandidate)>> } }

\* Requests that get as far as detection, and requests with one collaborator
\* before it answering otherwise.
AnalyzeRequests ==
  LET good == [op |-> "POST /analyze",
               query |-> [user_id |-> JStr("7b1c6a52-3f0e-4d7a-9c55-2f6a1e0b8d11")],
               upload |-> [kind |-> "file",
                           file |-> [originalname |-> <<"wall", "png">>,
                                     mimetype |-> "image/png"]],
               stamp |-> "1700000000000-9f3a",
               storage |-> Answer(JNull, JNull),
               user |-> Answer(Profile("normal", "road", 20 * One), JNull),
               scan |-> Answer(JObj([id |-> JStr("scan-1")]), JNull),
               upstream |-> [kind |-> "throw",
                             error |-> CHOOSE e \in UpstreamErrors :
                                         e.message = "rate limited"],
               shoes |-> Answer(JArr(SeedShoes), JNull),
               recSave |-> Answer(JNull, JNull),
               scanDelete |-> Answer(JNull, JNull),
               storageRemove |-> Answer(JNull, JNull)]
  IN { [good EXCEPT !.user = Answer(u, JNull), !.upstream = up, !.shoes = sh,
                    !.recSave = rs, !.scanDelete = sd, !.storageRemove = sr] :
         u \in UserRows, up \in AnalyzeUpstreams, sh \in Shoes, rs \in Outcomes,
         sd \in Outcomes, sr \in Outcomes }
     \cup
     { [early EXCEPT !.scanDelete = sd, !.storageRemove = sr] :
         early \in { [good EXCEPT !.query = q] : q \in Queries }
                     \cup { [good EXCEPT !.upload = upl] : upl \in Uploads }
                     \cup { [good EXCEPT !.storage = st] : st \in Outcomes }
                     \cup { [good EXCEPT !.user = u] : u \in Users }
                     \cup { [good EXCEPT !.scan = sc] : sc \in Scans },
         sd \in Outcomes, sr \in Outcomes }

InitAnalyze ==
  /\ LoadConfig
  /\ VISION_MAX_CANDIDATES = DefaultMaxCandidates
  /\ pc = "ready"
  /\ req \in AnalyzeRequests
  /\ out = Pending
  /\ calls = [detect |-> 0, rank |-> 0]
  /\ generated = <<>>
  /\ effects = <<>>

VisionCalled(made) == \E i \in 1..Len(made) : made[i].call = "runVision"

AnalyzePost ==
  /\ pc = "ready"
  /\ req.op = "POST /analyze"
  /\ \E request_id \in UUIDs :
       \E run \in {analyzePost(req, request_id)} :
          /\ out' = Return(run.response)
          /\ effects' = run.effects
          /\ generated' = IF VisionCalled(run.effects)
                          THEN Append(generated, request_id) ELSE generated
          /\ calls' = [calls EXCEPT !.detect = IF VisionCalled(run.effects) /\ ~VisionIsMock
                                               THEN @ + 1 ELSE @]
  /\ pc' = "done"
  /\ UNCHANGED <<MOCK_VISION, MOCK_RANKING, VISION_MAX_CANDIDATES, openai, req>>

SpecAnalyze == InitAnalyze /\ [][AnalyzePost]_vars

(***************************************************************************)
(* Overlay renderer (services/overlay.ts).  Pixel sizes are integers, bbox  *)
(* fields hundredths of the image side; the SVG is the list of its          *)
(* elements, each with the attributes the code writes.                      *)
(***************************************************************************)
BOX_COLORS ==
  << "#f43f5e", "#10b981", "#3b82f6", "#f59e0b", "#8b5cf6", "#14b8a6", "#ef4444",
     "#22c55e" >>

\* Math.round(num / den) for den > 0: halves go up.
Round(num, den) == (2 * num + den) \div (2 * den)

RECURSIVE ReplaceAll(_, _, _)
ReplaceAll(s, ch, with) ==
  IF Len(s) = 0 THEN ""
  ELSE (IF SubSeq(s, 1, 1) = ch THEN with ELSE SubSeq(s, 1, 1))
         \o ReplaceAll(SubSeq(s, 2, Len(s)), ch, with)

escapeSvgText(input) ==
  ReplaceAll(ReplaceAll(ReplaceAll(ReplaceAll(ReplaceAll(input,
    "&", "&amp;"), "<", "&lt;"), ">", "&gt;"), "\"", "&quot;"), "'", "&apos;")

candidateLabel(candidate) ==
  LET name == IF Truthy(candidate.o.brand) /\ Truthy(candidate.o.model)
              THEN candidate.o.brand.s \o " " \o candidate.o.model.s
              ELSE candidate.o.raw_label.s
  IN name \o " (" \o ToString(Round(candidate.o.confidence.n * 100, One)) \o "%)"

estimateTextWidth(text, fontSize) == Max(40, Round(Len(text) * fontSize * 58, 100))

Rect(x, y, width, height, fill, stroke, strokeWidth, radius) ==
  [tag |-> "rect", x |-> x, y |-> y, width |-> width, height |-> height,
   fill |-> fill, stroke |-> stroke, strokeWidth |-> strokeWidth, rx |-> radius]
SvgText(x, y, fontSize, fill, text) ==
  [tag |-> "text", x |-> x, y |-> y, fontSize |-> fontSize, fill |-> fill, text |-> text]

\* The three elements of a candidate with a bbox: outline, label chip, label.
BoxElements(width, height, candidate, i) ==
  LET minSide == Min(width, height)
      strokeWidth == Max(2, Round(minSide * 4, 1000))
      fontSize == Max(13, Round(minSide * 28, 1000))
      labelPadX == 8
      labelPadY == 5
      label == candidateLabel(candidate)
      color == BOX_COLORS[((i - 1) % Len(BOX_COLORS)) + 1]
      bbox == candidate.o.bbox.o
      x == Round(bbox.x.n * width, One)
      y == Round(bbox.y.n * height, One)
      boxWidth == Max(1, Round(bbox.w.n * width, One))
      boxHeight == Max(1, Round(bbox.h.n * height, One))
      xSafe == Min(x, Max(0, width - 1))
      ySafe == Min(y, Max(0, height - 1))
      wSafe == Min(boxWidth, width - xSafe)
      hSafe == Min(boxHeight, height - ySafe)
      labelWidth == Min(width - 4, estimateTextWidth(label, fontSize) + labelPadX * 2)
      labelHeight == fontSize + labelPadY * 2
      labelX == IF xSafe + labelWidth > width - 2
                THEN Max(2, width - labelWidth - 2) ELSE xSafe
      labelY == IF ySafe - labelHeight - 4 < 2
                THEN Min(height - labelHeight - 2, ySafe + 4)
                ELSE ySafe - labelHeight - 4
  IN << Rect(xSafe, ySafe, wSafe, hSafe, "none", color, strokeWidth, 0),
        Rect(labelX, labelY, labelWidth, labelHeight, color, "none", 0, 4),
        SvgText(labelX + labelPadX, labelY + labelPadY + fontSize - 2, fontSize, "#111111",
                escapeSvgText(label)) >>

\* The panel cut after five labels instead of eight.
VisibleMissing_FirstFive(missingLabels) == SubSeq(missingLabels, 1, Min(5, Len(missingLabels)))

VisibleMissing(missingLabels) == SubSeq(missingLabels, 1, Min(8, Len(missingLabels)))

\* The panel of the candidates without a bbox.
PanelElements(width, height, missingLabels) ==
  LET fontSize == Max(13, Round(Min(width, height) * 28, 1000))
      listFontSize == Max(12, Round(fontSize * 9, 10))
      rowHeight == listFontSize + 4
      visibleMissing == VisibleMissing(missingLabels)
      moreCount == Len(missingLabels) - Len(visibleMissing)
      lines == <<"No bbox (" \o ToString(Len(missingLabels)) \o ")">> \o visibleMissing
                 \o (IF moreCount > 0 THEN <<"+" \o ToString(moreCount) \o " more">>
                     ELSE <<>>)
      widest == CHOOSE k \in 1..Len(lines) :
                  \A j \in 1..Len(lines) : Len(lines[j]) <= Len(lines[k])
      maxLineWidth == Max(estimateTextWidth("No bbox", listFontSize),
                          estimateTextWidth(lines[widest], listFontSize))
      panelWidth == Min(width - 20, maxLineWidth + 20)
      panelHeight == Len(lines) * rowHeight + 12
      panelX == 10
      panelY == 10
  IN <<Rect(panelX, panelY, panelWidth, panelHeight, "#111111", "none", 0, 6)>>
     \o [index \in 1..Len(lines) |->
           SvgText(panelX + 10, panelY + 8 + index * rowHeight - 4, listFontSize,
                   "#f8fafc", escapeSvgText(lines[index]))]

buildOverlaySvg(width, height, candidates) ==
  LET n == Len(candidates)
      HasBbox(i) == candidates[i].o.bbox.t # "null"
      NoBbox(i) == ~HasBbox(i)
      boxed == SelectSeq([i \in 1..n |-> i], HasBbox)
      missing == SelectSeq([i \in 1..n |-> i], NoBbox)
      missingLabels == [j \in 1..Len(missing) |-> candidateLabel(candidates[missing[j]])]
      boxes == [k \in 1..(3 * Len(boxed)) |->
                  BoxElements(width, height, candidates[boxed[((k - 1) \div 3) + 1]],
                              boxed[((k - 1) \div 3) + 1])[((k - 1) % 3) + 1]]
  IN [width |-> width, height |-> height,
      elements |-> boxes \o (IF Len(missingLabels) > 0
                            THEN PanelElements(width, height, missingLabels) ELSE <<>>)]

\* metadata.width / metadata.height: 0 stands for a dimension sharp cannot read.
renderVisionOverlay(metadata, candidates) ==
  IF metadata.width = 0 \/ metadata.height = 0
  THEN Throw(ErrorOf("Unable to read image dimensions for overlay rendering"))
  ELSE Return([format |-> "png", width |-> metadata.width, height |-> metadata.height,
               overlay |-> buildOverlaySvg(metadata.width, metadata.height, candidates)])

\* Inputs: lists of up to MaxOverlayCands candidates, each with or without a
\* bbox, on one image; and one candidate with a normalized bbox on images of
\* many sizes.
MaxOverlayCands == 10

OverlayCandidate(i, boxed) ==
  JObj([raw_label |-> JStr("shoe <" \o ToString(i) \o ">"),
        brand |-> IF i % 2 = 0 THEN JStr("Brooks") ELSE JNull,
        model |-> IF i % 2 = 0 THEN JStr("Ghost " \o ToString(i)) ELSE JNull,
        confidence |-> JNum(One - 7 * i),
        bbox |-> IF boxed THEN Bbox((7 * i) % One, (11 * i) % One, 20, 20) ELSE JNull,
        notes |-> JNull])

OverlayLists ==
  UNION { { [i \in 1..n |-> OverlayCandidate(i, b[i])] : b \in [1..n -> BOOLEAN] } :
            n \in 0..MaxOverlayCands }

NormalizedBoxes ==
  { normalizeBbox(Bbox(x, y, w, h)) :
      x \in {0, 50, One - MinSide, One}, y \in {0, 50, One - MinSide, One},
      w \in {MinSide, 50, One}, h \in {MinSide, 50, One} }

OverlayRequests ==
  { [op |-> "renderVisionOverlay", metadata |-> [width |-> 640, height |-> 480],
     candidates |-> cs] : cs \in OverlayLists }
  \cup
  { [op |-> "renderVisionOverlay", metadata |-> [width |-> w, height |-> h],
     candidates |-> << JObj([raw_label |-> JStr(l), brand |-> JNull, model |-> JNull,
                             confidence |-> JNum(55), bbox |-> b, notes |-> JNull]) >>] :
      w \in {0, 1, 3, 5, 24, 25, 60, 640}, h \in {0, 1, 3, 5, 24, 25, 60, 640},
      b \in NormalizedBoxes, l \in {"X", "Saucony Endorphin Speed 3"} }

InitOverlay ==
  /\ MOCK_VISION = DefaultConfig.MOCK_VISION
  /\ MOCK_RANKING = DefaultConfig.MOCK_RANKING
  /\ VISION_MAX_CANDIDATES = DefaultConfig.VISION_MAX_CANDIDATES
  /\ openai = DefaultConfig.openai
  /\ pc = "ready"
  /\ req \in OverlayRequests
  /\ out = Pending
  /\ calls = [detect |-> 0, rank |-> 0]
  /\ generated = <<>>
  /\ effects = <<>>

RenderVisionOverlay ==
  /\ pc = "ready"
  /\ req.op = "renderVisionOverlay"
  /\ out' = renderVisionOverlay(req.metadata, req.candidates)
  /\ pc' = "done"
  /\ UNCHANGED <<MOCK_VISION, MOCK_RANKING, VISION_MAX_CANDIDATES, openai, req, calls,
                 generated, effects>>

SpecOverlay == InitOverlay /\ [][RenderVisionOverlay]_vars

(***************************************************************************)
(* normalizeVisionResult on its own: applied to validated detection        *)
(* results of at most MaxNormCands candidates.                             *)
(***************************************************************************)
MaxNormCands == 3

NormCandidates ==
  { JObj(GoodCandidate), CandNullBbox, CandOverflow,
    JObj(Without([GoodCandidate EXCEPT !.bbox = JNull, !.brand = JNull, !.model = JNull],
                 "notes")) }

NormalizeRequests ==
  { [op |-> "normalizeVisionResult",
     result |-> JObj([BasePayload(JStr("uuid-1"), cs) EXCEPT !.errors = JArr(es)])] :
      cs \in SeqsUpTo(NormCandidates, MaxNormCands),
      es \in { <<>>, <<ErrorEntry("LOW_LIGHT", "image is dark")>> } }

InitNormalize ==
  /\ MOCK_VISION = DefaultConfig.MOCK_VISION
  /\ MOCK_RANKING = DefaultConfig.MOCK_RANKING
  /\ VISION_MAX_CANDIDATES = DefaultConfig.VISION_MAX_CANDIDATES
  /\ openai = DefaultConfig.openai
  /\ pc = "ready"
  /\ req \in NormalizeRequests
  /\ out = Pending
  /\ calls = [detect |-> 0, rank |-> 0]
  /\ generated = <<>>
  /\ effects = <<>>

ApplyNormalizeVisionResult ==
  /\ pc = "ready"
  /\ req.op = "normalizeVisionResult"
  /\ out' = Return(normalizeVisionResult(req.result))
  /\ pc' = "done"
  /\ UNCHANGED <<MOCK_VISION, MOCK_RANKING, VISION_MAX_CANDIDATES, openai, req, calls,
                 generated, effects>>

SpecNormalize == InitNormalize /\ [][ApplyNormalizeVisionResult]_vars

(***************************************************************************)
(* Properties.                                                             *)
(***************************************************************************)
VisionDone == pc = "done" /\ req.op = "runVision"
RankingDone == pc = "done" /\ req.op = "runRanking"
VisionLive == ~MOCK_VISION /\ openai
Returned == out.kind = "return"
ResultCandidates == out.value.o.candidates.a
ResultErrors == out.value.o.errors.a
ErrorCodes(errors) == [i \in 1..Len(errors) |-> errors[i].o.code.s]

\* Labels of the inputs, by construction of the input sets.
AcceptableCandidates ==
  { JObj(GoodCandidate), CandUnmapped, CandOverflow, CandEdge, CandNullBbox, CandNoBbox }
OutOfRangeCandidates == { CandXOut, CandWOut }
BrokenCandidates == { CandConfOut, CandNoLabel }
AcceptableDefectPayloads ==
  { p \in DefectPayloads : Has(p, "errors") /\ p.o.errors.t = "arr"
                           /\ Len(p.o.errors.a) = 1 }

SentObject == req.args.upstream.kind = "text" /\ req.args.upstream.text \in ObjectTexts
SentCandidates == req.args.upstream.payload.o.candidates.a
SentList == SentObject /\ req.args.upstream.payload \in ListPayloads
SentTooMany == SentList /\ Len(SentCandidates) > VISION_MAX_CANDIDATES
SentOnly(kinds) == SentList /\ \A i \in 1..Len(SentCandidates) : SentCandidates[i] \in kinds
SentSome(kinds) == SentList /\ \E i \in 1..Len(SentCandidates) : SentCandidates[i] \in kinds

\* Upstream outcomes that are failures: the call threw, the text holds no
\* detection object, or the object breaks the Detection Schema.
UpstreamThrew == req.args.upstream.kind = "throw"
SentNoObject == req.args.upstream.kind = "text" /\ req.args.upstream.text \in OtherTexts
SentBrokenObject ==
  \/ SentObject /\ req.args.upstream.payload \in DefectPayloads \ AcceptableDefectPayloads
  \/ SentSome(OutOfRangeCandidates \cup BrokenCandidates)
  \/ SentTooMany
VisionFailureOutcome == UpstreamThrew \/ SentNoObject \/ SentBrokenObject

IsVisionResult(v) ==
  /\ v.t = "obj"
  /\ DOMAIN v.o = VisionKeys
  /\ v.o.request_id.t = "str"
  /\ v.o.candidates.t = "arr"
  /\ ImageQualitySchemaOk(v.o.image_quality)
  /\ IsArray(v.o.errors)
  /\ (\A i \in 1..Len(v.o.errors.a) : ErrorSchemaOk(v.o.errors.a[i]))

\* C1: runVision never throws.  In mock mode and for every upstream outcome
\* the call settles by returning a VisionResult, and on every failure outcome
\* (the call threw, the text holds no object, the object breaks the schema) the
\* result has no candidates and exactly one errors entry.
C1_RunVisionNeverThrows ==
  VisionDone =>
    /\ Returned
    /\ IsVisionResult(out.value)
    /\ (VisionLive /\ VisionFailureOutcome =>
          Len(ResultCandidates) = 0 /\ Len(ResultErrors) = 1)

C1_Witness ==
  /\ VisionDone /\ VisionLive /\ UpstreamThrew
  /\ req.args.upstream.error.status = JNull
  /\ req.args.upstream.error.responseStatus = JNull
  /\ Returned
  /\ ErrorCodes(ResultErrors) = <<"VISION_UPSTREAM_ERROR">>

\* C2: with visionFailed = true runRanking returns fallback_needed = true,
\* empty ranked and avoid and exactly one error, VISION_UNAVAILABLE, for any
\* profile and candidate list and in any mock/live configuration, and makes no
\* upstream call.
C2_VisionFailedShortCircuits ==
  RankingDone /\ req.args.visionFailed =>
    /\ Returned
    /\ out.value.o.fallback_needed = JBool(TRUE)
    /\ out.value.o.ranked = JArr(<<>>)
    /\ out.value.o.avoid = JArr(<<>>)
    /\ ErrorCodes(ResultErrors) = <<"VISION_UNAVAILABLE">>
    /\ calls = [detect |-> 0, rank |-> 0]

C2_Witness ==
  /\ RankingDone /\ req.args.visionFailed
  /\ MOCK_RANKING
  /\ \E i \in 1..Len(req.args.candidates) : HasBrandAndModel(req.args.candidates[i])
  /\ Returned
  /\ ErrorCodes(ResultErrors) = <<"VISION_UNAVAILABLE">>

\* C3: for every non-null bbox with x and y in [0,1], boundaries included, and
\* any w and h, normalizeBbox returns a box with w >= 0.01, h >= 0.01,
\* x + w <= 1 and y + h <= 1.
GeometryDone == pc = "done" /\ req.op = "normalizeBbox"
InUnit(v) == 0 <= v /\ v <= One

C3_NormalizedBoxInsideUnitSquare ==
  GeometryDone /\ req.bbox.t = "obj"
  /\ InUnit(req.bbox.o.x.n) /\ InUnit(req.bbox.o.y.n) =>
    /\ Returned
    /\ out.value.o.w.n >= MinSide
    /\ out.value.o.h.n >= MinSide
    /\ out.value.o.x.n + out.value.o.w.n <= One
    /\ out.value.o.y.n + out.value.o.h.n <= One

\* C4: every VisionResult runVision returns carries the request_id generated
\* at the start of that call, on every path and whatever request_id the
\* model's response holds.
C4_ResultCarriesGeneratedId ==
  VisionDone =>
    /\ Returned
    /\ Len(generated) = 1
    /\ out.value.o.request_id = JStr(generated[1])

\* C5: for every configured N_max and in every mode the VisionResult returned
\* by runVision has at most N_max candidates.
C5_AtMostMaxCandidates ==
  VisionDone /\ Returned => Len(ResultCandidates) <= VISION_MAX_CANDIDATES

\* C6: what runRanking returns in mock/offline mode validates against the
\* Ranking Schema for every input, a profile outside the schema included.
C6_MockRankingValidates ==
  RankingDone /\ RankingIsMock => Returned /\ RankingSchemaOk(out.value)

\* C7: every result of runRanking with fallback_needed = true has empty ranked
\* and avoid and at least one errors entry, in every mode and for every
\* candidate list.
C7_FallbackIsExplained ==
  RankingDone /\ Returned /\ out.value.o.fallback_needed = JBool(TRUE) =>
    /\ out.value.o.ranked = JArr(<<>>)
    /\ out.value.o.avoid = JArr(<<>>)
    /\ Len(ResultErrors) >= 1

\* C8 as stated: a detection payload whose only defect is a bounding-box
\* coordinate out of range (x = 1.2, w > 1) is repaired by clamping and its
\* candidates are kept; runVision does not reject the result for it.
SentOnlyBboxOutOfRange ==
  /\ SentOnly(AcceptableCandidates \cup OutOfRangeCandidates)
  /\ SentSome(OutOfRangeCandidates)
  /\ ~SentTooMany

C8_OutOfRangeBboxIsRepaired ==
  VisionDone /\ VisionLive /\ SentOnlyBboxOutOfRange =>
    /\ Returned
    /\ Len(ResultCandidates) = Len(SentCandidates)
    /\ \A i \in 1..Len(ResultErrors) : ResultErrors[i].o.code.s # "VISION_SCHEMA_INVALID"

\* C8 amended: a payload whose bbox coordinates all lie in [0,1] but whose box
\* reaches outside the unit square is repaired (w becomes max(0.01, min(w, 1 - x)),
\* h likewise) and its candidates are kept; a payload with a bbox coordinate
\* outside [0,1] breaks the Detection Schema and is rejected as a whole with
\* VISION_SCHEMA_INVALID.
ClampedSide(pos, side) == Max(MinSide, Min(side, One - pos))

C8_InRangeOverflowIsRepaired ==
  /\ VisionDone /\ VisionLive /\ SentOnly(AcceptableCandidates) /\ ~SentTooMany =>
       /\ Returned
       /\ Len(ResultCandidates) = Len(SentCandidates)
       /\ \A i \in 1..Len(SentCandidates) :
            Has(SentCandidates[i], "bbox") /\ SentCandidates[i].o.bbox.t = "obj" =>
              LET sent == SentCandidates[i].o.bbox.o
              IN ResultCandidates[i].o.bbox =
                   Bbox(sent.x.n, sent.y.n, ClampedSide(sent.x.n, sent.w.n),
                        ClampedSide(sent.y.n, sent.h.n))
  /\ VisionDone /\ VisionLive /\ SentSome(OutOfRangeCandidates) =>
       /\ Returned
       /\ ResultCandidates = <<>>
       /\ ErrorCodes(ResultErrors) = <<"VISION_SCHEMA_INVALID">>

C8_Witness ==
  /\ VisionDone /\ VisionLive /\ SentOnly(AcceptableCandidates)
  /\ SentCandidates = <<CandOverflow>>
  /\ Returned
  /\ Len(ResultCandidates) = 1
  /\ ResultCandidates[1].o.bbox = Bbox(90, 90, 10, 10)

\* C9: a parsed detection payload that breaks a Detection Schema constraint (a
\* confidence or bbox coordinate out of range, an enum value outside its set, a
\* missing required field, more than N_max candidates) is rejected as a whole:
\* no candidates, one VISION_SCHEMA_INVALID error, nothing of the payload kept.
C9_SchemaViolationRejectsWhole ==
  VisionDone /\ VisionLive /\ SentBrokenObject =>
    /\ Returned
    /\ ResultCandidates = <<>>
    /\ ErrorCodes(ResultErrors) = <<"VISION_SCHEMA_INVALID">>

C9_Witness ==
  /\ VisionDone /\ VisionLive /\ SentList
  /\ SentCandidates = <<JObj(GoodCandidate), CandConfOut>>
  /\ Len(SentCandidates) <= VISION_MAX_CANDIDATES
  /\ Returned
  /\ ResultCandidates = <<>>
  /\ ErrorCodes(ResultErrors) = <<"VISION_SCHEMA_INVALID">>

\* C10: for a payload that is schema-valid but for candidates lacking the bbox
\* key, the patch step injects bbox = null, the patched payload validates, and
\* those candidates are in the result with bbox = null; the patch leaves a
\* candidate whose bbox is present and non-null as it was.
C10_MissingBboxIsPatched ==
  VisionDone /\ VisionLive /\ SentOnly(AcceptableCandidates) /\ ~SentTooMany =>
    LET patched == patchVisionPayload(req.args.upstream.payload)
    IN /\ Returned
       /\ Len(ResultCandidates) = Len(SentCandidates)
       /\ \A i \in 1..Len(ResultErrors) : ResultErrors[i].o.code.s # "VISION_SCHEMA_INVALID"
       /\ \A i \in 1..Len(SentCandidates) :
            /\ SentCandidates[i] = CandNoBbox =>
                 /\ patched.o.candidates.a[i] = CandNullBbox
                 /\ ResultCandidates[i] = CandNullBbox
            /\ Has(SentCandidates[i], "bbox") /\ SentCandidates[i].o.bbox # JNull =>
                 patched.o.candidates.a[i] = SentCandidates[i]

C10_Witness ==
  /\ VisionDone /\ VisionLive /\ SentList
  /\ SentCandidates = <<CandNoBbox, JObj(GoodCandidate)>>
  /\ Returned
  /\ Len(ResultCandidates) = 2
  /\ ResultCandidates[1].o.bbox = JNull
  /\ ResultCandidates[2] = JObj(GoodCandidate)

\* C11 as stated: for a text that is one well-formed JSON object with any
\* non-JSON prose before and/or after it, safeParseJsonFromModel returns what
\* parsing the object substring returns; for a text holding no JSON object it
\* fails with an error.
ParseDone == pc = "done" /\ req.op = "safeParseJsonFromModel"
ObjectText == <<"{", "b", "}">>
ProseTokens == {"p", "{", "}"}
\* prose: no member list, no scalar, no well-formed object in it
IsProse(s) ==
  /\ \A i \in 1..Len(s) : s[i] \in ProseTokens
  /\ \A i \in 1..(Len(s) - 1) : ~(s[i] = "{" /\ s[i + 1] = "}")
ObjectAt(text, i) == i + 2 <= Len(text) /\ SubSeq(text, i, i + 2) = ObjectText
ProseBefore(text, i) == SubSeq(text, 1, i - 1)
ProseAfter(text, i) == SubSeq(text, i + 3, Len(text))
WrappedAt(text, i) ==
  ObjectAt(text, i) /\ IsProse(ProseBefore(text, i)) /\ IsProse(ProseAfter(text, i))
HoldsObject(text) ==
  \E i \in 1..Len(text) :
    ObjectAt(text, i) \/ (i + 1 <= Len(text) /\ SubSeq(text, i, i + 1) = <<"{", "}">>)
NoBrace(s, ch) == \A i \in 1..Len(s) : s[i] # ch

C11_AnyProseIsStripped ==
  ParseDone =>
    /\ \A i \in 1..Len(req.text) :
         WrappedAt(req.text, i) => out = JsonParse(ObjectText, req.payload)
    /\ (~HoldsObject(req.text) => out.kind = "throw")

\* C11 amended: the object is recovered when the prose before it holds no "{"
\* and the prose after it holds no "}", and then the value is the one parsing
\* the object substring returns; when prose on the outside holds such a brace
\* the call fails with the parser's error.  A text that holds no JSON object
\* fails with an error unless the whole text is a JSON scalar, which is
\* returned as parsed.
C11_BraceFreeProseIsStripped ==
  ParseDone =>
    /\ \A i \in 1..Len(req.text) :
         WrappedAt(req.text, i) =>
           IF NoBrace(ProseBefore(req.text, i), "{") /\ NoBrace(ProseAfter(req.text, i), "}")
           THEN out = JsonParse(ObjectText, req.payload) /\ out = Return(req.payload)
           ELSE out = Throw(ErrorOf("Unexpected token in JSON"))
    /\ (~HoldsObject(req.text) /\ req.text # <<"v">> => out.kind = "throw")
    /\ (req.text = <<"v">> => out = Return(JNum(One)))

C11_Witness ==
  /\ ParseDone
  /\ req.text = <<"}", "{", "b", "}", "{">>
  /\ WrappedAt(req.text, 2)
  /\ out = Return(req.payload)

\* C12: in mock/offline mode with visionFailed = false and a profile that is a
\* UserProfile of the data model, ranked is built from the first min(3, k) of
\* the k candidates that have both a brand and a model, in candidate order; the
\* entry at 0-based position i has match_score 90 - 8*i (strictly decreasing),
\* and fallback_needed is true exactly when ranked is empty.  The three mock
\* detection candidates give three entries, scores 90, 82, 74, no fallback.
RankingMockCase == RankingDone /\ RankingIsMock /\ ~req.args.visionFailed
WithBrandAndModel == SelectSeq(req.args.candidates, HasBrandAndModel)
ResultRanked == out.value.o.ranked.a
Scores(ranked) == [i \in 1..Len(ranked) |-> ranked[i].o.match_score.n]

C12_MockRankingTakesFirstThree ==
  RankingMockCase /\ ProfileSchemaOk(req.args.profile) =>
    /\ Returned
    /\ Len(ResultRanked) = Min(3, Len(WithBrandAndModel))
    /\ \A i \in 1..Len(ResultRanked) :
         /\ ResultRanked[i].o.model =
              JStr(WithBrandAndModel[i].o.brand.s \o " " \o WithBrandAndModel[i].o.model.s)
         /\ ResultRanked[i].o.match_score = JNum(90 * One - 8 * (i - 1) * One)
         /\ \A j \in 1..(i - 1) :
              ResultRanked[j].o.match_score.n > ResultRanked[i].o.match_score.n
    /\ out.value.o.fallback_needed = JBool(Len(ResultRanked) = 0)
    /\ (req.args.candidates = MockVisionCandidates =>
          /\ Scores(ResultRanked) = <<90 * One, 82 * One, 74 * One>>
          /\ out.value.o.fallback_needed = JBool(FALSE))

C12_Witness ==
  /\ RankingMockCase
  /\ req.args.candidates = MockVisionCandidates
  /\ req.args.profile = Profile("normal", "road", 20 * One)
  /\ Returned
  /\ Scores(ResultRanked) = <<90 * One, 82 * One, 74 * One>>
  /\ out.value.o.fallback_needed = JBool(FALSE)

\* C13: in the recommendation runRanking returns, a ranked entry whose
\* "brand model" key is absent from the catalog mapping (specsByName) has null
\* terrain, stability, drop_mm, weight_g and cushion, and no error is reported
\* for the missing catalog entry.
NullSpecs ==
  JObj([terrain |-> JNull, stability |-> JNull, drop_mm |-> JNull,
        weight_g |-> JNull, cushion |-> JNull])
InCatalog(entry) == entry.o.model.s \in DOMAIN req.args.specsByName

C13_AbsentCatalogEntryHasNullSpecs ==
  RankingDone /\ Returned =>
    \A i \in 1..Len(ResultRanked) :
      ~InCatalog(ResultRanked[i]) =>
        /\ ResultRanked[i].o.specs = NullSpecs
        /\ ResultErrors = <<>>

\* C14: in live mode (ranking mock flag off, upstream credential configured)
\* with visionFailed = false, runRanking returns fallback_needed = true, empty
\* ranked and avoid and exactly one error, RANKING_NOT_ENABLED, for every
\* profile and candidate list; the result is a function of the request alone.
RankingLiveCase == RankingDone /\ ~MOCK_RANKING /\ openai /\ ~req.args.visionFailed

C14_LiveRankingNotEnabled ==
  RankingLiveCase =>
    /\ out = Return(RankingResult(req.args.requestId, req.args.profile, <<>>, TRUE,
                      <<ErrorEntry("RANKING_NOT_ENABLED", "Real ranking not enabled yet.")>>))
    /\ out.value.o.fallback_needed = JBool(TRUE)
    /\ out.value.o.ranked = JArr(<<>>)
    /\ out.value.o.avoid = JArr(<<>>)
    /\ ErrorCodes(ResultErrors) = <<"RANKING_NOT_ENABLED">>

C14_Witness ==
  /\ RankingLiveCase
  /\ req.args.candidates = MockVisionCandidates
  /\ ProfileSchemaOk(req.args.profile)
  /\ Returned
  /\ ErrorCodes(ResultErrors) = <<"RANKING_NOT_ENABLED">>

\* C15: in POST /analyze, ranking is invoked with visionFailed = true exactly
\* when the vision result has zero candidates, whatever errors (or none) that
\* result carries; so the recommendations of the response contain a
\* VISION_UNAVAILABLE error if and only if vision returned zero candidates.
AnalyzeDone == pc = "done" /\ req.op = "POST /analyze"
Made(call) == { i \in 1..Len(effects) : effects[i].call = call }
HasCode(errors, code) == \E i \in 1..Len(errors) : errors[i].o.code.s = code

C15_VisionFailedIffNoCandidates ==
  AnalyzeDone =>
    /\ \A i \in Made("runRanking") :
         \E j \in Made("runVision") :
           /\ j < i
           /\ effects[i].args.candidates = effects[j].args.o.candidates.a
           /\ effects[i].args.visionFailed = (Len(effects[j].args.o.candidates.a) = 0)
    /\ (Returned /\ out.value.status = 200 =>
          HasCode(out.value.body.o.recommendations.o.errors.a, "VISION_UNAVAILABLE")
            = (Len(out.value.body.o.vision.o.candidates.a) = 0))

\* zero candidates and no error at all
C15_Witness ==
  /\ AnalyzeDone /\ Returned /\ out.value.status = 200
  /\ out.value.body.o.vision.o.candidates.a = <<>>
  /\ out.value.body.o.vision.o.errors.a = <<>>
  /\ \E i \in Made("runRanking") : effects[i].args.visionFailed
  /\ HasCode(out.value.body.o.recommendations.o.errors.a, "VISION_UNAVAILABLE")

\* C16: for n candidates of which m have a null bbox the overlay draws exactly
\* n - m box outlines, and the summary panel if and only if m > 0; it is one
\* panel, whose lines are a header showing m, then the first min(m, 8)
\* unlocalized labels in candidate order, then "+N more" with N = m - 8 if and
\* only if m > 8.
OverlayDone == pc = "done" /\ req.op = "renderVisionOverlay"
Elements == out.value.overlay.elements
Outlines == { k \in 1..Len(Elements) : Elements[k].tag = "rect" /\ Elements[k].fill = "none" }
Panels == { k \in 1..Len(Elements) : Elements[k].tag = "rect" /\ Elements[k].fill = "#111111" }
IsPanelText(e) == e.tag = "text" /\ e.fill = "#f8fafc"
PanelLines == LET lines == SelectSeq(Elements, IsPanelText)
              IN [k \in 1..Len(lines) |-> lines[k].text]
IsUnlocalized(c) == c.o.bbox = JNull
Unlocalized == SelectSeq(req.candidates, IsUnlocalized)

C16_PanelListsUnlocalized ==
  OverlayDone /\ Returned =>
    LET n == Len(req.candidates)
        m == Len(Unlocalized)
    IN /\ Cardinality(Outlines) = n - m
       /\ Cardinality(Panels) = (IF m > 0 THEN 1 ELSE 0)
       /\ (m = 0 => PanelLines = <<>>)
       /\ (m > 0 =>
             /\ Len(PanelLines) = 1 + Min(m, 8) + (IF m > 8 THEN 1 ELSE 0)
             /\ PanelLines[1] = "No bbox (" \o ToString(m) \o ")"
             /\ \A j \in 1..Min(m, 8) :
                  PanelLines[1 + j] = escapeSvgText(candidateLabel(Unlocalized[j]))
             /\ (m > 8 => PanelLines[10] = "+" \o ToString(m - 8) \o " more")
             /\ \A k \in Panels : \A j \in 1..Len(Elements) :
                  IsPanelText(Elements[j]) => k < j)

C16_Witness ==
  /\ OverlayDone /\ Returned
  /\ Len(req.candidates) = 10
  /\ Len(Unlocalized) = 9
  /\ req.candidates[2].o.bbox # JNull
  /\ Cardinality(Outlines) = 1
  /\ Len(PanelLines) = 10
  /\ PanelLines[1] = "No bbox (9)"
  /\ PanelLines[2] = "shoe &lt;1&gt; (93%)"
  /\ PanelLines[3] = "shoe &lt;3&gt; (79%)"
  /\ PanelLines[4] = "Brooks Ghost 4 (72%)"
  /\ PanelLines[10] = "+1 more"

\* C17: on a validated detection result with k candidates whose bbox is null,
\* normalizeVisionResult keeps all candidates, the null-bbox ones still with
\* bbox = null, and appends exactly one VISION_PARTIAL_BBOX error whose
\* message carries the count k when k > 0, and no such error when k = 0.
NormalizeDone == pc = "done" /\ req.op = "normalizeVisionResult"
GivenCandidates == req.result.o.candidates.a
NullBboxCount == Cardinality({ i \in 1..Len(GivenCandidates) : GivenCandidates[i].o.bbox = JNull })

C17_PartialBboxAdvisory ==
  NormalizeDone =>
    /\ Returned
    /\ Len(ResultCandidates) = Len(GivenCandidates)
    /\ \A i \in 1..Len(GivenCandidates) :
         IF GivenCandidates[i].o.bbox = JNull
         THEN ResultCandidates[i] = GivenCandidates[i]
         ELSE /\ ResultCandidates[i].o.bbox # JNull
              /\ Without(ResultCandidates[i].o, "bbox") = Without(GivenCandidates[i].o, "bbox")
    /\ (NullBboxCount > 0 =>
          ResultErrors =
            Append(req.result.o.errors.a,
                   ErrorEntry("VISION_PARTIAL_BBOX",
                              ToString(NullBboxCount)
                                \o " candidate(s) missing bbox due to ambiguity or occlusion.")))
    /\ (NullBboxCount = 0 => ResultErrors = req.result.o.errors.a)

C17_Witness ==
  /\ NormalizeDone /\ Returned
  /\ GivenCandidates = <<CandNullBbox, JObj(GoodCandidate), CandNullBbox>>
  /\ ResultCandidates = GivenCandidates
  /\ ErrorCodes(ResultErrors) = <<"LOW_LIGHT", "VISION_PARTIAL_BBOX">>
  /\ ResultErrors[2].o.message.s = "2 candidate(s) missing bbox due to ambiguity or occlusion."

\* C18: runVision reports VISION_UPSTREAM_ERROR only when the upstream call
\* itself failed; when the call succeeded but no JSON can be recovered from
\* its text, the single errors entry carries the parse/schema-invalid code (or
\* an equivalent), not the upstream-error code.
UpstreamAnswered == req.args.upstream.kind = "text"
ParseFailed ==
  /\ UpstreamAnswered
  /\ safeParseJsonFromModel(req.args.upstream.text, req.args.upstream.payload).kind = "throw"

C18_ParseErrorIsNotUpstreamError ==
  VisionDone /\ VisionLive /\ Returned =>
    /\ (HasCode(ResultErrors, "VISION_UPSTREAM_ERROR") => UpstreamThrew)
    /\ (ParseFailed =>
          /\ Len(ResultErrors) = 1
          /\ ResultErrors[1].o.code.s # "VISION_UPSTREAM_ERROR")

\* C19: within one runVision call the upstream detection call is made at most
\* once: it is not made again after a failure, which surfaces at once as a
\* degraded result, and it is not made at all in mock mode or without a
\* credential; runRanking makes no upstream call on any path.
C19_AtMostOneUpstreamCall ==
  /\ calls.detect <= 1
  /\ calls.rank = 0
  /\ (pc = "ready" => calls.detect = 0)
  /\ (VisionDone /\ (MOCK_VISION \/ ~openai) => calls.detect = 0)
  /\ (VisionDone /\ VisionLive /\ UpstreamThrew =>
        /\ calls.detect = 1
        /\ Returned
        /\ ResultCandidates = <<>>
        /\ ErrorCodes(ResultErrors) = <<"VISION_UPSTREAM_ERROR">>)
  /\ (RankingDone => calls.detect = 0)

C19_Witness ==
  /\ VisionDone /\ VisionLive /\ UpstreamThrew
  /\ req.args.upstream.error.status = JNum(429 * One)
  /\ calls = [detect |-> 1, rank |-> 0]
  /\ Returned
  /\ ResultCandidates = <<>>

\* C20: for every image width and height of at least 1 pixel and every
\* candidate with a normalized non-null bbox, the label chip placed by
\* buildOverlaySvg lies inside the image after the flip/clamp step:
\* labelX >= 0, labelX + labelWidth <= width, labelY >= 0 and
\* labelY + labelHeight <= height.
Chips == { k \in 1..Len(Elements) : Elements[k].tag = "rect" /\ Elements[k].rx = 4 }
ChipInsideX(chip) == chip.x >= 0 /\ chip.x + chip.width <= req.metadata.width
ChipInsideY(chip) == chip.y >= 0 /\ chip.y + chip.height <= req.metadata.height

C20_LabelChipInsideImage ==
  OverlayDone /\ Returned /\ req.metadata.width >= 1 /\ req.metadata.height >= 1 =>
    \A k \in Chips : ChipInsideX(Elements[k]) /\ ChipInsideY(Elements[k])

\* C21: normalizeVisionResult leaves the result it was given as it was and
\* returns a value with the same fields, the same request_id and
\* image_quality, as many candidates in the same order, each differing from
\* the given one in its bbox at most, and an errors list that begins with
\* the given errors.
C21_NormalizeKeepsInputAndFrame ==
  [][(pc = "ready" /\ req.op = "normalizeVisionResult") =>
       /\ req' = req
       /\ out'.kind = "return"
       /\ LET given == req.result.o
              result == out'.value.o
          IN /\ DOMAIN result = DOMAIN given
             /\ result.request_id = given.request_id
             /\ result.image_quality = given.image_quality
             /\ Len(result.candidates.a) = Len(given.candidates.a)
             /\ \A i \in 1..Len(given.candidates.a) :
                  /\ DOMAIN result.candidates.a[i].o = DOMAIN given.candidates.a[i].o
                  /\ Without(result.candidates.a[i].o, "bbox")
                       = Without(given.candidates.a[i].o, "bbox")
             /\ Len(result.errors.a) >= Len(given.errors.a)
             /\ SubSeq(result.errors.a, 1, Len(given.errors.a)) = given.errors.a]_vars

\* A result with an earlier error, an out-of-range bbox and a null bbox: the
\* value returned differs from it in a bbox and in one more error.
C21_Witness ==
  /\ NormalizeDone /\ Returned
  /\ GivenCandidates = <<CandOverflow, CandNullBbox, JObj(GoodCandidate)>>
  /\ ErrorCodes(req.result.o.errors.a) = <<"LOW_LIGHT">>
  /\ ResultCandidates[1].o.bbox # GivenCandidates[1].o.bbox
  /\ ResultCandidates[3] = GivenCandidates[3]
  /\ ErrorCodes(ResultErrors) = <<"LOW_LIGHT", "VISION_PARTIAL_BBOX">>

\* What a finished POST /analyze left in the scans table and in storage, from
\* the calls it made and the answers they got.
Status == out.value.status
ErrorCode == out.value.body.o.error.o.code.s
CallsOf(call) == SelectSeq(effects, LAMBDA e : e.call = call)
ScanRowCreated == Made("scans.insert") # {} /\ req.scan.error = JNull /\ req.scan.data # JNull
ImageUploaded == Made("storage.upload") # {} /\ req.storage.error = JNull
ScanRowLeft == ScanRowCreated /\ ~(Made("cleanupScan") # {} /\ req.scanDelete.error = JNull)
ImageLeft == ImageUploaded /\ ~(Made("cleanupImage") # {} /\ req.storageRemove.error = JNull)

\* C22: POST /analyze sends its response last.  When it ends with an error
\* response it has first asked for the scan row to be deleted exactly when one
\* was created, and then for the uploaded image to be removed exactly when one
\* was uploaded, so that with both cleanup calls succeeding neither is left;
\* a cleanup call that fails is logged and changes nothing else: a failed user
\* lookup, scan insert, catalog load or recommendations insert is still
\* answered with its own error.  A success response comes with no cleanup.
C22_CleanupBeforeErrorResponse ==
  AnalyzeDone =>
    /\ Returned
    /\ Made("res.json") = {Len(effects)}
    /\ effects[Len(effects)].args = out.value
    /\ Status = 200 =>
         /\ Made("cleanupScan") = {} /\ Made("cleanupImage") = {}
         /\ Made("console.error") = {}
         /\ ScanRowLeft /\ ImageLeft
    /\ Status # 200 =>
         /\ CallsOf("cleanupScan")
              = (IF ScanRowCreated THEN <<Effect("cleanupScan", req.scan.data.o.id.s)>>
                 ELSE <<>>)
         /\ CallsOf("cleanupImage")
              = (IF ImageUploaded
                 THEN <<Effect("cleanupImage", CallsOf("storage.upload")[1].args)>>
                 ELSE <<>>)
         /\ \A i \in Made("cleanupScan"), j \in Made("cleanupImage") : i < j
         /\ \A i \in Made("cleanupScan") \cup Made("cleanupImage") :
              \A j \in 1..Len(effects) :
                effects[j].call \notin {"cleanupScan", "cleanupImage", "console.error",
                                        "res.json"} => j < i
         /\ Len(CallsOf("console.error"))
              = (IF Made("cleanupScan") # {} /\ req.scanDelete.error # JNull THEN 1 ELSE 0)
                + (IF Made("cleanupImage") # {} /\ req.storageRemove.error # JNull
                   THEN 1 ELSE 0)
         /\ (req.scanDelete.error = JNull /\ req.storageRemove.error = JNull)
              => ~ScanRowLeft /\ ~ImageLeft
         /\ (Made("users.select") # {} /\ (req.user.error # JNull \/ req.user.data = JNull))
              => Status = 404 /\ ErrorCode = "USER_NOT_FOUND"
         /\ (Made("scans.insert") # {} /\ (req.scan.error # JNull \/ req.scan.data = JNull))
              => Status = 500 /\ ErrorCode = "SCAN_CREATE_FAILED"
         /\ (Made("shoes.select") # {} /\ req.shoes.error # JNull)
              => Status = 500 /\ ErrorCode = "SHOES_LOAD_FAILED"
         /\ (Made("recommendations.insert") # {} /\ req.recSave.error # JNull)
              => Status = 500 /\ ErrorCode = "RECOMMENDATIONS_SAVE_FAILED"

\* The recommendations insert failed after detection and ranking: the scan
\* row is deleted, then the image removed, then the error is sent.
C22_Witness ==
  /\ AnalyzeDone /\ Returned
  /\ Status = 500 /\ ErrorCode = "RECOMMENDATIONS_SAVE_FAILED"
  /\ ScanRowCreated /\ ImageUploaded
  /\ req.scanDelete.error = JNull /\ req.storageRemove.error = JNull
  /\ Len(effects) >= 3
  /\ effects[Len(effects) - 2].call = "cleanupScan"
  /\ effects[Len(effects) - 1].call = "cleanupImage"
  /\ effects[Len(effects)].call = "res.json"
  /\ ~ScanRowLeft /\ ~ImageLeft

====
